---- MODULE Spec2Model ----
(***************************************************************************)
(* Model of the Reddit acquisition-and-ingestion pipeline:                 *)
(*   src/PyScripts/Database_start.py  (script = "PyScripts")               *)
(*   src/Database_start.py            (script = "root")                    *)
(* The two files hold two versions of the same functions; the variable     *)
(* script says which file's code a behaviour runs.                         *)
(***************************************************************************)
EXTENDS Integers, Sequences, FiniteSets, TLC

VARIABLES
    script,             \* which file's code runs
    conn,               \* the sqlite3 connection: [db, disk, in_transaction]
    pc,                 \* position inside the running call, "idle" between calls
    call,               \* the call that runs or ran last
    outcome,            \* how the last call ended: "none", "returned", "raised"
    fault,              \* a statement of the call was forced to fail
    failed,             \* the statement of the call that failed, forced or not:
                        \* "none", "begin", "insert", "schema", "assert"
    wrote,              \* a bulk insert of the call added a row
    ncalls,             \* number of calls made so far
    names,              \* the table_names argument of the call
    db_before,          \* the connection's view of the store when the call started
    source,             \* the listing reddit.subreddit('all').search draws from
    posts_limit, comments_limit, replies_limit,
    cpu_count,          \* os.cpu_count()
    i,                  \* loop index of the pagination loop
    last_post_id, after_param,
    result_collection,  \* chain of the pages received (references to threads)
    requests,           \* log of the search requests issued by the current call
    in_flight,          \* search requests sent whose page has not arrived
    results,            \* list of per-batch results of process_post_batch
    merged,             \* number of entries of results folded so far
    gen,                \* frame of the generator batch_generator(result_collection,
                        \* batch_size): [state, batch, pulled, yields]
    tasks,              \* the process_post_batch calls handed to Parallel, one per
                        \* batch yielded: [batch, state, result]
    post_data, subreddit_data, comment_data, reply_data,
    stmt,               \* index of the next bulk insert (1..4)
    rolled_back         \* the call executed ROLLBACK

envVars   == <<script, source, posts_limit, comments_limit, replies_limit, cpu_count>>
pageVars  == <<i, last_post_id, after_param, result_collection, requests, in_flight>>
dataVars  == <<results, merged, gen, tasks,
               post_data, subreddit_data, comment_data, reply_data>>
callVars  == <<call, outcome, fault, failed, wrote, ncalls, names, db_before, stmt, rolled_back>>
vars      == <<conn, pc, envVars, pageVars, dataVars, callVars>>

-----------------------------------------------------------------------------
(* Bounds of the model *)
MaxPosts        == 2    \* thread objects in a source of the store specification
MaxCommunities  == 2    \* communities the threads of a listing are spread over
MaxPrepCalls    == 3    \* calls made by a behaviour of the preprocessing specification
MaxNameCalls    == 3    \* calls made by a behaviour of the table-name specification
MaxNodes        == 2    \* top-level nodes of a thread, and reply nodes of a comment
MaxLimit        == 2    \* largest comments_limit / replies_limit drawn
MaxCpu          == 3    \* largest os.cpu_count() drawn
MaxSnapshots    == 2    \* snapshots of one thread that listings can show
MaxMergePosts   == 3    \* threads of a listing of the merge specification
MaxCalls        == 4    \* calls of prepare_database / fill_tables in one behaviour
MaxPostsLimit   == 250  \* largest posts_limit drawn by the pagination specification
CapMargin       == 50     \* how far below / above a cap the limits passed lie
MaxBatchInput   == 6    \* largest posts_limit / listing of the batch specification
MaxAvailable    == 250  \* largest number of items the source holds there

(* Program constants *)
native_limit       == 100
comments_limit_cap == 100
replies_limit_cap  == 100
posts_limit_cap    == 10000

None      == "None"         \* Python None in a text column
NoCursor  == 0              \* Python None for last_post_id / after_param
NoAccount == "NoAccount"    \* post.author is None: the account was deleted

table_names == <<"Posts", "Subreddits", "Comments", "Replies">>

MinUncapped(a, b) == a
Min(a, b) == IF a < b THEN a ELSE b
Range(s)  == {s[x] : x \in DOMAIN s}
SeqsUpTo(S, n) == UNION {[1..m -> S] : m \in 0..n}

-----------------------------------------------------------------------------
(* Thread objects of the upstream source *)

More == [kind |-> "more", id |-> 0, author |-> NoAccount, body |-> "",
         parent_id |-> 0, replies |-> <<>>]
IsMoreComments(node) == node.kind = "more"

\* The API's fullname of a comment id ("t1_" prefix), as found in reply.parent_id
Fullname(id) == 1000 + id

AuthorOf(id) == IF id % 3 = 0 THEN NoAccount ELSE "user"
BodyOf(id)   == IF id % 7 = 0 THEN "[deleted]" ELSE "text"

\* A shape is a sequence of top-level nodes; a node is <<"more">> or
\* <<"c", r1, .., rn>> with each r "r" (a reply) or "more" (a placeholder).
ReplyShapes == SeqsUpTo({"r", "more"}, MaxNodes)
NodeShapes  == {<<"more">>} \cup {<<"c">> \o rs : rs \in ReplyShapes}
Shapes      == SeqsUpTo(NodeShapes, MaxNodes)

MkReply(pid, c, r, kind) ==
    IF kind = "more" THEN More
    ELSE [kind |-> "comment", id |-> 100 * pid + 10 * c + r,
          author |-> AuthorOf(100 * pid + 10 * c + r),
          body |-> BodyOf(100 * pid + 10 * c + r),
          parent_id |-> Fullname(10 * pid + c), replies |-> <<>>]

MkComment(pid, c, shape) ==
    IF shape[1] = "more" THEN More
    ELSE [kind |-> "comment", id |-> 10 * pid + c,
          author |-> AuthorOf(10 * pid + c), body |-> BodyOf(10 * pid + c),
          parent_id |-> Fullname(pid),
          replies |-> [r \in 1..(Len(shape) - 1) |-> MkReply(pid, c, r, shape[r + 1])]]

\* the comments and replies of a forest, placeholders left out
NumComments(shape) ==
    Cardinality({cr \in (1..Len(shape)) \X (1..(MaxNodes + 1)) :
                    cr[2] <= Len(shape[cr[1]]) /\ shape[cr[1]][cr[2]] # "more"})

MkThread(pid, author, selftext, score, sub, subscribers, shape) ==
    [id |-> pid, author |-> author, selftext |-> selftext, score |-> score,
     num_comments |-> NumComments(shape),
     subreddit |-> [id |-> sub, description |-> "about",
                    public_description |-> "public", subscribers |-> subscribers],
     comments |-> [c \in 1..Len(shape) |-> MkComment(pid, c, shape[c])]]

\* The snapshot v fixes the values of a thread that drift from listing to
\* listing (score, subscriber count of its community) and the post's text.
Snapshot(v) ==
    [score |-> v, subscribers |-> 95 + 5 * v,
     selftext |-> IF v = 1 THEN "" ELSE "[removed]",
     author |-> IF v = 1 THEN NoAccount ELSE "op"]

\* A listing is described by the number n of its items, whose ids are 1..n in
\* listing order, the snapshot of each and the shape of each one's comment
\* forest (items past the end of snap / shape: snapshot 2, no comments).
\* Every thread belongs to community 1.
\* sub lists the communities of the first threads; a thread it does not
\* reach is in community 1
\* bodies gives the text of the items (posts, comments, replies) it lists by
\* id, in place of the text their id and snapshot stand for
ListingWith(bodies, sub, snap, shape, n) ==
    [bodies |-> bodies, n |-> n, shape |-> shape, snap |-> snap, sub |-> sub]

ListingIn(sub, snap, shape, n) == ListingWith(<< >>, sub, snap, shape, n)

Listing(snap, shape, n) == ListingIn(<< >>, snap, shape, n)
NoListing == Listing(<< >>, << >>, 0)

\* the node with the body that bodies lists for it, if any
BodyFrom(node, bodies) ==
    IF node.id \in DOMAIN bodies THEN [node EXCEPT !.body = bodies[node.id]] ELSE node

BodiesFrom(thread, bodies) ==
    IF DOMAIN bodies = {} THEN thread
    ELSE [thread EXCEPT
             !.selftext = IF thread.id \in DOMAIN bodies THEN bodies[thread.id] ELSE @,
             !.comments =
                 [c \in DOMAIN thread.comments |->
                     LET node == BodyFrom(thread.comments[c], bodies)
                     IN  [node EXCEPT !.replies =
                             [r \in DOMAIN node.replies |->
                                 BodyFrom(node.replies[r], bodies)]]]]

Thread(src, pid) ==
    LET v == Snapshot(IF pid \in DOMAIN src.snap THEN src.snap[pid] ELSE 2)
    IN  BodiesFrom(MkThread(pid, v.author, v.selftext, v.score,
                            IF pid \in DOMAIN src.sub THEN src.sub[pid] ELSE 1,
                            v.subscribers,
                            IF pid \in DOMAIN src.shape THEN src.shape[pid] ELSE << >>),
                   src.bodies)

\* the thread objects a sequence of references stands for
Deref(src, refs) == [x \in 1..Len(refs) |-> Thread(src, refs[x])]

-----------------------------------------------------------------------------
(* process_comments / process_post_batch *)

\* the account's name read off whatever the item carries
AuthorNameRaw(author) == author
AuthorName(author) == IF author # NoAccount THEN author ELSE None

\* a tuple that leaves out the source's sentinel texts as well
PostTupleSentinelNulled(post) ==
    [Id |-> post.id, Author |-> AuthorName(post.author),
     Subreddit_id |-> post.subreddit.id,
     Text_content |-> IF post.selftext \notin {"", "[removed]", "[deleted]"}
                      THEN post.selftext ELSE None,
     Num_comments |-> post.num_comments,
     Score |-> post.score]

PostTuple(post) ==
    [Id |-> post.id, Author |-> AuthorName(post.author),
     Subreddit_id |-> post.subreddit.id,
     Text_content |-> IF post.selftext # "" THEN post.selftext ELSE None,
     Num_comments |-> post.num_comments,
     Score |-> post.score]

SubredditTuple(post) ==
    [Id |-> post.subreddit.id, Description |-> post.subreddit.description,
     Public_description |-> post.subreddit.public_description,
     Subscribers |-> post.subreddit.subscribers]

ReplyTupleRawParent(post, comment, reply) ==
    [Id |-> reply.id, Author |-> AuthorName(reply.author),
     Submission_id |-> post.id, Parent_id |-> reply.parent_id,
     Text_content |-> reply.body]

ReplyTuple(post, comment, reply) ==
    [Id |-> reply.id, Author |-> AuthorName(reply.author),
     Submission_id |-> post.id, Parent_id |-> comment.id,
     Text_content |-> reply.body]

\* a tuple that records the number of reply nodes the source lists
CommentTupleRemoteCount(post, comment, num_replies) ==
    [Id |-> comment.id, Author |-> AuthorName(comment.author),
     Submission_id |-> post.id, Text_content |-> comment.body,
     Num_replies |-> Len(comment.replies)]

CommentTuple(post, comment, num_replies) ==
    [Id |-> comment.id, Author |-> AuthorName(comment.author),
     Submission_id |-> post.id, Text_content |-> comment.body,
     Num_replies |-> num_replies]

\* seq[:limit] for limit >= 0
Slice(seq, limit) == SubSeq(seq, 1, Min(limit, Len(seq)))

\* The inner loop over comment.replies[:replies_limit], from node r on.
RECURSIVE RepliesLoopCountAll(_, _, _, _)
RepliesLoopCountAll(post, comment, nodes, r) ==
    IF r > Len(nodes) THEN [batch_replies |-> {}, num_replies |-> 0]
    ELSE LET rest == RepliesLoopCountAll(post, comment, nodes, r + 1)
         IN  IF IsMoreComments(nodes[r])
             THEN [batch_replies |-> {}, num_replies |-> Len(nodes) - r + 1]
             ELSE [batch_replies |-> {ReplyTuple(post, comment, nodes[r])}
                                        \cup rest.batch_replies,
                   num_replies |-> 1 + rest.num_replies]

RECURSIVE RepliesLoop(_, _, _, _)
RepliesLoop(post, comment, nodes, r) ==
    IF r > Len(nodes) \/ IsMoreComments(nodes[r])
    THEN [batch_replies |-> {}, num_replies |-> 0]
    ELSE LET rest == RepliesLoop(post, comment, nodes, r + 1)
         IN  [batch_replies |-> {ReplyTuple(post, comment, nodes[r])}
                                    \cup rest.batch_replies,
              num_replies |-> 1 + rest.num_replies]

\* The outer loop over post.comments[:comments_limit], from node c on.
RECURSIVE CommentsLoopSkip(_, _, _, _)
CommentsLoopSkip(post, nodes, rl, c) ==
    IF c > Len(nodes) THEN [comment_data |-> {}, reply_data |-> {}]
    ELSE LET rest == CommentsLoopSkip(post, nodes, rl, c + 1)
             inner == RepliesLoop(post, nodes[c], Slice(nodes[c].replies, rl), 1)
         IN  IF IsMoreComments(nodes[c]) THEN rest
             ELSE [comment_data |-> {CommentTuple(post, nodes[c], inner.num_replies)}
                                       \cup rest.comment_data,
                   reply_data |-> inner.batch_replies \cup rest.reply_data]

RECURSIVE CommentsLoop(_, _, _, _)
CommentsLoop(post, nodes, rl, c) ==
    IF c > Len(nodes) \/ IsMoreComments(nodes[c])
    THEN [comment_data |-> {}, reply_data |-> {}]
    ELSE LET rest  == CommentsLoop(post, nodes, rl, c + 1)
             inner == RepliesLoop(post, nodes[c], Slice(nodes[c].replies, rl), 1)
         IN  [comment_data |-> {CommentTuple(post, nodes[c], inner.num_replies)}
                                  \cup rest.comment_data,
              reply_data |-> inner.batch_replies \cup rest.reply_data]

process_comments(post, cl, rl) == CommentsLoop(post, Slice(post.comments, cl), rl, 1)

RECURSIVE process_post_batch(_, _, _)
process_post_batch(posts, cl, rl) ==
    IF posts = <<>>
    THEN [post_data |-> {}, subreddit_data |-> {}, comment_data |-> {}, reply_data |-> {}]
    ELSE LET post == Head(posts)
             pc_  == process_comments(post, cl, rl)
             rest == process_post_batch(Tail(posts), cl, rl)
         IN  [post_data      |-> {PostTuple(post)} \cup rest.post_data,
              subreddit_data |-> {SubredditTuple(post)} \cup rest.subreddit_data,
              comment_data   |-> pc_.comment_data \cup rest.comment_data,
              reply_data     |-> pc_.reply_data \cup rest.reply_data]

-----------------------------------------------------------------------------
(* batch_generator *)

RECURSIVE BatchLoop(_, _, _, _)
BatchLoop(iterable, batch_size, batch, yielded) ==
    IF iterable = <<>>
    THEN IF batch # <<>> THEN Append(yielded, batch) ELSE yielded
    ELSE LET b == Append(batch, Head(iterable))
         IN  IF Len(b) = batch_size
             THEN BatchLoop(Tail(iterable), batch_size, <<>>, Append(yielded, b))
             ELSE BatchLoop(Tail(iterable), batch_size, b, yielded)

batch_generator(iterable, batch_size) == BatchLoop(iterable, batch_size, <<>>, <<>>)

\* The generator object: state is "none" (not started), "running" (inside
\* the for loop), "yielded" (suspended at the yield of the loop),
\* "yielded_last" (suspended at the yield after the loop) or "exhausted";
\* batch is its local list, pulled the number of items it took from its
\* input, yields the number of batches it has yielded.
NoGenerator == [state |-> "none", batch |-> << >>, pulled |-> 0, yields |-> 0]

\* a generator that reads its whole input before it yields
GenStepEager(g, input, batch_size) ==
    [g EXCEPT !.pulled = Len(input),
              !.batch = SubSeq(input, 1, Min(batch_size, Len(input))),
              !.state = IF input = << >> THEN "exhausted" ELSE "yielded_last",
              !.yields = IF input = << >> THEN 0 ELSE 1]

\* The running generator up to the next item it pulls, its next yield or its
\* return; input is the whole iterable, of which g.pulled items are consumed.
GenStep(g, input, batch_size) ==
    IF g.pulled < Len(input)
    THEN LET b == Append(g.batch, input[g.pulled + 1])
         IN  IF Len(b) = batch_size
             THEN [g EXCEPT !.batch = b, !.pulled = @ + 1, !.state = "yielded",
                            !.yields = @ + 1]
             ELSE [g EXCEPT !.batch = b, !.pulled = @ + 1]
    ELSE IF g.batch # << >>
         THEN [g EXCEPT !.state = "yielded_last", !.yields = @ + 1]
         ELSE [g EXCEPT !.state = "exhausted"]

\* a resumption that forgets "batch = []"
GenResumeKeeps(g) ==
    CASE g.state = "none"         -> [g EXCEPT !.state = "running"]
      [] g.state = "yielded"      -> [g EXCEPT !.state = "running"]
      [] g.state = "yielded_last" -> [g EXCEPT !.state = "exhausted", !.batch = << >>]

\* next(generator) is called on a generator that is not running
GenResume(g) ==
    CASE g.state = "none"         -> [g EXCEPT !.state = "running"]
      [] g.state = "yielded"      -> [g EXCEPT !.state = "running", !.batch = << >>]
      [] g.state = "yielded_last" -> [g EXCEPT !.state = "exhausted", !.batch = << >>]

-----------------------------------------------------------------------------
(* The upstream source: search(query, limit, params={'after': cursor}) *)

\* The items that follow the one whose id is the cursor, limit of them at
\* most; from the first item when there is no cursor.
Search(src, limit, after) ==
    LET start == IF after = NoCursor THEN 0 ELSE Min(after, src.n)
    IN  [x \in 1..(Min(start + limit, src.n) - start) |-> start + x]

-----------------------------------------------------------------------------
(* The sqlite3 connection.  db is what a query through the connection sees, *)
(* disk is what is committed; they differ only while a transaction is open. *)

TableSet == Range(table_names)

\* names a caller may pass in place of the defaults, position by position
other_table_names == <<"Posts2", "Subreddits2", "Comments2", "Replies2">>

\* every name a table of the store can have
TableUniverse == TableSet \cup Range(other_table_names)

index_statements ==
    << [op |-> "create_index", name |-> "idx_Posts_Subreddit_id",     on |-> "Posts"],
       [op |-> "create_index", name |-> "idx_Comments_Submission_id", on |-> "Comments"],
       [op |-> "create_index", name |-> "idx_Replies_Submission_id",  on |-> "Replies"],
       [op |-> "create_index", name |-> "idx_Replies_Parent_id",      on |-> "Replies"] >>

EmptyDb == [tables |-> {}, indexes |-> {}, rows |-> [t \in TableUniverse |-> {}]]

\* functions: the SQL functions registered with conn.create_function
NewConnection ==
    [db |-> EmptyDb, disk |-> EmptyDb, in_transaction |-> FALSE, functions |-> {}]

Ok(c)     == [conn |-> c, error |-> FALSE]
Failed(c) == [conn |-> c, error |-> TRUE]

\* sqlite commits a statement run outside a transaction at once
Autocommit(c) == IF c.in_transaction THEN c ELSE [c EXCEPT !.disk = c.db]

\* sqlite3 (legacy transaction control) opens a transaction before INSERT / DELETE
ImplicitBegin(c) == [c EXCEPT !.in_transaction = TRUE]

ExecBegin(c) ==
    IF c.in_transaction THEN Failed(c) ELSE Ok([c EXCEPT !.in_transaction = TRUE])

ExecCommit(c) ==
    IF ~c.in_transaction THEN Failed(c)
    ELSE Ok([c EXCEPT !.disk = c.db, !.in_transaction = FALSE])

ExecRollbackKeeps(c) ==
    IF ~c.in_transaction THEN Failed(c)
    ELSE Ok([c EXCEPT !.disk = c.db, !.in_transaction = FALSE])

ExecRollback(c) ==
    IF ~c.in_transaction THEN Failed(c)
    ELSE Ok([c EXCEPT !.db = c.disk, !.in_transaction = FALSE])

\* conn.commit(): a no-op when no transaction is open
ConnCommit(c) == [c EXCEPT !.disk = c.db, !.in_transaction = FALSE]

\* a CREATE TABLE that commits at once, whatever transaction is open
ExecCreateTableCommits(c, name) ==
    Ok([c EXCEPT !.db.tables = @ \cup {name},
                 !.disk = [c.db EXCEPT !.tables = @ \cup {name}],
                 !.in_transaction = FALSE])

\* data definition statements take part in the open transaction
ExecCreateTable(c, name) ==
    Ok(Autocommit([c EXCEPT !.db.tables = @ \cup {name}]))

ExecCreateIndex(c, name, on) ==
    IF on \notin c.db.tables \/ name \in c.db.indexes THEN Failed(c)
    ELSE Ok(Autocommit([c EXCEPT !.db.indexes = @ \cup {name}]))

ExecDeleteNothing(c, name) ==
    IF name \notin c.db.tables THEN Failed(c) ELSE Ok(ImplicitBegin(c))

ExecDelete(c, name) ==
    IF name \notin c.db.tables THEN Failed(c)
    ELSE Ok(ImplicitBegin([c EXCEPT !.db.rows[name] = {}]))

Exec(c, s) ==
    CASE s.op = "create_table" -> ExecCreateTable(c, s.name)
      [] s.op = "create_index" -> ExecCreateIndex(c, s.name, s.on)
      [] s.op = "delete"       -> ExecDelete(c, s.name)
      [] s.op = "commit"       -> ExecCommit(c)

\* Runs stmts[n..] in order and stops at the first error; the statement
\* numbered forced fails whatever the store holds (0: none is forced).
RECURSIVE RunStatements(_, _, _, _)
RunStatements(c, stmts, n, forced) ==
    IF n > Len(stmts) THEN Ok(c)
    ELSE IF n = forced THEN Failed(c)
    ELSE LET r == Exec(c, stmts[n])
         IN  IF r.error THEN r ELSE RunStatements(r.conn, stmts, n + 1, forced)

\* NOT NULL ON CONFLICT IGNORE on Text_content of the 3rd and 4th table
NotNullOk(k, t) == k \in {3, 4} => t.Text_content # None

\* The row sets that can be added by one executemany over the set tuples: the
\* iteration order of a Python set is not fixed, so of several tuples with
\* one new id any one can come first and be the row that is kept.
Winners(cand) ==
    {W \in SUBSET cand :
        \A id \in {t.Id : t \in cand} : Cardinality({t \in W : t.Id = id}) = 1}

InsertOrReplace(existing, tuples, k) ==
    {{e \in existing : \A t \in W : t.Id # e.Id} \cup W :
        W \in Winners({t \in tuples : NotNullOk(k, t)})}

InsertOrIgnore(existing, tuples, k) ==
    {existing \cup W :
        W \in Winners({t \in tuples : /\ NotNullOk(k, t)
                                      /\ \A e \in existing : e.Id # t.Id})}

\* executemany that fails part-way: some of the rows are already inserted
InsertInterrupted(existing, tuples, k) ==
    UNION {{existing \cup P : P \in SUBSET (full \ existing)} :
              full \in InsertOrIgnore(existing, tuples, k)}

-----------------------------------------------------------------------------
(* prepare_database *)

create_statements(tn) ==
    [n \in 1..4 |-> [op |-> "create_table", name |-> tn[n], on |-> tn[n]]]
        \o index_statements

delete_statements(tn) ==
    [n \in 1..4 |-> [op |-> "delete", name |-> tn[n], on |-> tn[n]]]

commit_statement == [op |-> "commit", name |-> "", on |-> ""]

\* SELECT count(name) FROM sqlite_master WHERE type='table' AND name IN table_names
CountTables(c, tn) == Cardinality(Range(tn) \cap c.db.tables)

\* src/PyScripts/Database_start.py: the wipe path runs the DELETEs and returns;
\* the create path is BEGIN .. COMMIT with ROLLBACK in the except clauses.
PreparePyScripts(c, tn, forced) ==
    IF CountTables(c, tn) > 0
    THEN LET r == RunStatements(c, delete_statements(tn), 1, 0)
         IN  [conn |-> r.conn, raised |-> r.error, rolled_back |-> FALSE,
              failed |-> IF r.error THEN "schema" ELSE "none"]
    ELSE LET b == ExecBegin(c)
             r == RunStatements(b.conn, Append(create_statements(tn), commit_statement),
                                1, forced)
         IN  IF b.error
             THEN [conn |-> c, raised |-> TRUE, rolled_back |-> FALSE, failed |-> "begin"]
             ELSE IF r.error
             THEN [conn |-> ExecRollback(r.conn).conn, raised |-> FALSE,
                   rolled_back |-> TRUE, failed |-> "schema"]
             ELSE [conn |-> r.conn, raised |-> FALSE, rolled_back |-> FALSE,
                   failed |-> "none"]

\* src/Database_start.py: no explicit transaction, conn.commit() at the end,
\* an error of a statement leaves the function at once.
PrepareRoot(c, tn, forced) ==
    LET r == IF CountTables(c, tn) > 0
             THEN RunStatements(c, delete_statements(tn), 1, 0)
             ELSE RunStatements(c, create_statements(table_names), 1, forced)
    IN  IF r.error
        THEN [conn |-> r.conn, raised |-> TRUE, rolled_back |-> FALSE, failed |-> "schema"]
        ELSE [conn |-> ConnCommit(r.conn), raised |-> FALSE, rolled_back |-> FALSE,
              failed |-> "none"]

\* forced: the statement of the create path that is made to fail (0: none)
prepare_database(tn, forced) ==
    /\ pc = "idle"
    /\ forced # 0 => CountTables(conn, tn) = 0
    /\ LET r == IF script = "PyScripts" THEN PreparePyScripts(conn, tn, forced)
                ELSE PrepareRoot(conn, tn, forced)
       IN  /\ conn' = r.conn
           /\ outcome' = IF r.raised THEN "raised" ELSE "returned"
           /\ rolled_back' = r.rolled_back
           /\ failed' = r.failed
    /\ call' = "prepare_database"
    /\ names' = tn
    /\ wrote' = FALSE
    /\ fault' = (forced # 0)
    /\ ncalls' = ncalls + 1
    /\ db_before' = conn.db
    /\ stmt' = IF forced # 0 THEN forced ELSE 1
    /\ UNCHANGED <<pc, envVars, pageVars, dataVars>>

-----------------------------------------------------------------------------
(* fill_tables *)

Paginated == posts_limit > native_limit
div == posts_limit \div native_limit
mod == posts_limit % native_limit

\* the loop "for i in range(div+1)" with its "if i == div and mod == 0: break"
LoopContinues(n) == n <= div /\ ~(n = div /\ mod = 0)

RequestLimitAlwaysNative(n) == native_limit

\* limit=native_limit if i != div else mod
RequestLimit(n) == IF n # div THEN native_limit ELSE mod

NextAfterFirstCursor(last, after) == IF after # NoCursor THEN after ELSE last

\* if last_post_id: after_param = last_post_id
NextAfter(last, after) == IF last # NoCursor THEN last ELSE after

EmptyResult ==
    [post_data |-> {}, subreddit_data |-> {}, comment_data |-> {}, reply_data |-> {}]

\* The values the locals of fill_tables have while no call runs
LocalsCleared ==
    /\ source = NoListing
    /\ posts_limit = 1 /\ comments_limit = 0 /\ replies_limit = 0 /\ cpu_count = 1
    /\ i = 0 /\ last_post_id = NoCursor /\ after_param = NoCursor
    /\ result_collection = << >> /\ requests = << >> /\ in_flight = 0
    /\ results = << >> /\ merged = 0
    /\ gen = NoGenerator /\ tasks = << >>
    /\ post_data = {} /\ subreddit_data = {} /\ comment_data = {} /\ reply_data = {}

\* fill_tables is left (return or exception): its locals are gone
Leave(how) ==
    /\ pc' = "idle"
    /\ outcome' = how
    /\ source' = NoListing
    /\ posts_limit' = 1 /\ comments_limit' = 0 /\ replies_limit' = 0 /\ cpu_count' = 1
    /\ i' = 0 /\ last_post_id' = NoCursor /\ after_param' = NoCursor
    /\ result_collection' = << >> /\ requests' = << >> /\ in_flight' = 0
    /\ results' = << >> /\ merged' = 0
    /\ gen' = NoGenerator /\ tasks' = << >>
    /\ post_data' = {} /\ subreddit_data' = {} /\ comment_data' = {} /\ reply_data' = {}
    /\ UNCHANGED script

\* The call itself: defaults resolved, limits capped (PyScripts only), locals set.
fill_tables(pl, cl, rl, cpus, src, tn) ==
    /\ pc = "idle"
    /\ names' = tn
    /\ source' = src
    /\ cpu_count' = cpus
    /\ posts_limit' = IF script = "PyScripts" THEN Min(pl, posts_limit_cap) ELSE pl
    /\ comments_limit' = IF script = "PyScripts" THEN Min(cl, comments_limit_cap) ELSE cl
    /\ replies_limit' = IF script = "PyScripts" THEN Min(rl, replies_limit_cap) ELSE rl
    /\ post_data' = {} /\ subreddit_data' = {} /\ comment_data' = {} /\ reply_data' = {}
    /\ results' = <<>> /\ merged' = 0
    /\ gen' = NoGenerator /\ tasks' = << >>
    /\ i' = 0 /\ last_post_id' = NoCursor /\ after_param' = NoCursor
    /\ result_collection' = <<>> /\ requests' = <<>> /\ in_flight' = 0
    /\ call' = "fill_tables" /\ outcome' = "none" /\ fault' = FALSE
    /\ failed' = "none" /\ wrote' = FALSE
    /\ rolled_back' = FALSE /\ stmt' = 1
    /\ ncalls' = ncalls + 1
    /\ db_before' = conn.db
    /\ pc' = "search"
    /\ UNCHANGED <<script, conn>>

\* A caller that has made fewer than budget calls calls fill_tables, with
\* posts_limit in pls, comments_limit and replies_limit in lims, on a machine
\* with one of cpus processors, while the source lists one of sources.
CallFillTables(budget, pls, lims, cpus, sources) ==
    /\ pc = "idle"
    /\ ncalls < budget
    /\ \E pl \in pls, cl \in lims, rl \in lims, n \in cpus, src \in sources :
           fill_tables(pl, cl, rl, n, src, table_names)

\* the same caller passing the table names of its last call
CallFillTablesNamed(budget, pls, lims, cpus, sources) ==
    /\ pc = "idle"
    /\ ncalls < budget
    /\ \E pl \in pls, cl \in lims, rl \in lims, n \in cpus, src \in sources :
           fill_tables(pl, cl, rl, n, src, names)

CallPrepareDatabase(budget) ==
    /\ pc = "idle"
    /\ ncalls < budget
    /\ \E forced \in 0..8 : prepare_database(table_names, forced)

\* a caller that passes any of the tuples tns of table names
CallPrepareDatabaseNamed(budget, tns) ==
    /\ pc = "idle"
    /\ ncalls < budget
    /\ \E tn \in tns : prepare_database(tn, 0)

\* reddit.subreddit('all').search(...) is called: the request leaves
FillRequest ==
    /\ pc = "search"
    /\ LET after == IF Paginated THEN NextAfter(last_post_id, after_param) ELSE NoCursor
       IN  /\ after_param' = after
           /\ requests' = Append(requests,
                 [limit |-> IF Paginated THEN RequestLimit(i) ELSE posts_limit,
                  after |-> after, got |-> -1, last |-> NoCursor])
    /\ in_flight' = in_flight + 1
    /\ pc' = "wait"
    /\ UNCHANGED <<conn, envVars, dataVars, callVars, i, last_post_id, result_collection>>

\* the page arrives; search_results[-1] raises IndexError on an empty page
FillReceive ==
    /\ pc = "wait"
    /\ LET req  == requests[Len(requests)]
           page == Search(source, req.limit, req.after)
       IN  IF Paginated /\ page = <<>>
           THEN Leave("raised")
           ELSE /\ requests' = [requests EXCEPT ![Len(requests)] =
                                   [@ EXCEPT !.got = Len(page),
                                             !.last = IF page # <<>>
                                                      THEN Thread(source, page[Len(page)]).id
                                                      ELSE NoCursor]]
                /\ result_collection' = result_collection \o page
                /\ in_flight' = in_flight - 1
                /\ last_post_id' = IF Paginated THEN Thread(source, page[Len(page)]).id
                                   ELSE last_post_id
                /\ i' = IF Paginated THEN i + 1 ELSE i
                /\ pc' = IF Paginated /\ LoopContinues(i + 1) THEN "search" ELSE "extract"
                /\ UNCHANGED <<outcome, envVars, dataVars, after_param>>
    /\ UNCHANGED <<conn, call, fault, failed, wrote, ncalls, names, db_before, stmt, rolled_back>>

\* src/Database_start.py: batch_size = (posts_limit // os.cpu_count()) + 1
BatchSize == (posts_limit \div cpu_count) + 1

ParallelResults(rc, cl, rl) ==
    LET batches == batch_generator(rc, BatchSize)
    IN  [b \in 1..Len(batches) |-> process_post_batch(Deref(source, batches[b]), cl, rl)]

\* Parallel asks the generator of its tasks for the next one
ParallelNext ==
    /\ pc = "extract" /\ script = "root"
    /\ gen.state \in {"none", "yielded", "yielded_last"}
    /\ gen' = GenResume(gen)
    /\ UNCHANGED <<conn, pc, envVars, pageVars, callVars, results, merged, tasks,
                   post_data, subreddit_data, comment_data, reply_data>>

\* The generator runs on: it pulls one item, and when it yields a batch
\* Parallel hands delayed(process_post_batch)(batch, ..) to a worker.
GenAdvance ==
    /\ pc = "extract" /\ script = "root"
    /\ gen.state = "running"
    /\ gen' = GenStep(gen, result_collection, BatchSize)
    /\ tasks' = IF gen'.state \in {"yielded", "yielded_last"}
                THEN Append(tasks, [batch |-> gen'.batch, state |-> "running",
                                    result |-> EmptyResult])
                ELSE tasks
    /\ UNCHANGED <<conn, pc, envVars, pageVars, callVars, results, merged,
                   post_data, subreddit_data, comment_data, reply_data>>

\* a worker process returns the four sets of its batch
WorkerReturn(t) ==
    /\ pc = "extract" /\ script = "root"
    /\ t \in DOMAIN tasks
    /\ tasks[t].state = "running"
    /\ tasks' = [tasks EXCEPT ![t] =
                    [@ EXCEPT !.state = "done",
                              !.result = process_post_batch(Deref(source, tasks[t].batch),
                                             comments_limit, replies_limit)]]
    /\ UNCHANGED <<conn, pc, envVars, pageVars, callVars, results, merged, gen,
                   post_data, subreddit_data, comment_data, reply_data>>

\* a join that does not wait for the running workers
JoinedEarly ==
    gen.state = "exhausted"

\* Parallel(...)(...) returns: no task is left to take and every worker is back
Joined ==
    /\ gen.state = "exhausted"
    /\ \A t \in DOMAIN tasks : tasks[t].state = "done"

\* process_post_batch on the whole collection (PyScripts), or the return of
\* joblib.Parallel with the list of all results, in task order (root)
FillExtract ==
    /\ pc = "extract"
    /\ IF script = "PyScripts"
       THEN LET r == process_post_batch(Deref(source, result_collection),
                                        comments_limit, replies_limit)
            IN  /\ results' = <<r>>
                /\ merged' = 1
                /\ post_data' = r.post_data
                /\ subreddit_data' = r.subreddit_data
                /\ comment_data' = r.comment_data
                /\ reply_data' = r.reply_data
                /\ pc' = "begin"
                /\ UNCHANGED <<gen, tasks>>
       ELSE /\ Joined
            /\ results' = [t \in DOMAIN tasks |-> tasks[t].result]
            /\ pc' = IF results' = <<>> THEN "insert" ELSE "merge"
            /\ UNCHANGED <<merged, gen, tasks,
                           post_data, subreddit_data, comment_data, reply_data>>
    /\ UNCHANGED <<conn, envVars, pageVars, callVars>>

UpdateFirstWins(data, batch) ==
    data \cup {t \in batch : \A d \in data : d.Id # t.Id}

\* set.update
Update(data, batch) == data \cup batch

\* a merge that keeps one tuple per id
MergeRoundById(acc, r) ==
    [post_data      |-> UpdateFirstWins(acc.post_data, r.post_data),
     subreddit_data |-> UpdateFirstWins(acc.subreddit_data, r.subreddit_data),
     comment_data   |-> UpdateFirstWins(acc.comment_data, r.comment_data),
     reply_data     |-> UpdateFirstWins(acc.reply_data, r.reply_data)]

\* the body of "for post_batch, subreddit_batch, comment_batch, reply_batch in results"
MergeRound(acc, r) ==
    [post_data      |-> Update(acc.post_data, r.post_data),
     subreddit_data |-> Update(acc.subreddit_data, r.subreddit_data),
     comment_data   |-> Update(acc.comment_data, r.comment_data),
     reply_data     |-> Update(acc.reply_data, r.reply_data)]

\* the whole loop over the list res, from the collections acc
RECURSIVE MergeLoop(_, _)
MergeLoop(res, acc) ==
    IF res = << >> THEN acc ELSE MergeLoop(Tail(res), MergeRound(acc, Head(res)))

\* the four collections of the running call
Collections ==
    [post_data |-> post_data, subreddit_data |-> subreddit_data,
     comment_data |-> comment_data, reply_data |-> reply_data]

\* one round of the loop
FillMerge ==
    /\ pc = "merge"
    /\ merged < Len(results)
    /\ LET m == MergeRound(Collections, results[merged + 1])
       IN  /\ post_data' = m.post_data
           /\ subreddit_data' = m.subreddit_data
           /\ comment_data' = m.comment_data
           /\ reply_data' = m.reply_data
    /\ merged' = merged + 1
    /\ pc' = IF merged + 1 = Len(results) THEN "insert" ELSE "merge"
    /\ UNCHANGED <<conn, envVars, pageVars, callVars, results, gen, tasks>>

\* cursor.execute("BEGIN TRANSACTION;"), outside the try block
FillBegin ==
    /\ pc = "begin"
    /\ LET b == ExecBegin(conn)
       IN  /\ conn' = b.conn
           /\ IF b.error
              THEN Leave("raised")
              ELSE /\ pc' = "insert"
                   /\ UNCHANGED <<outcome, envVars, pageVars, dataVars>>
    /\ failed' = IF ExecBegin(conn).error THEN "begin" ELSE failed
    /\ UNCHANGED <<call, fault, wrote, ncalls, names, db_before, stmt, rolled_back>>

InsertData(n) ==
    CASE n = 1 -> post_data
      [] n = 2 -> subreddit_data
      [] n = 3 -> comment_data
      [] n = 4 -> reply_data

\* cursor.executemany(insert_..._query, ..._data), the stmt-th of the four.
\* It fails when its table is missing, or when it is forced to.
FillInsert(forced) ==
    /\ pc = "insert"
    /\ LET name     == names[stmt]
           missing  == name \notin conn.db.tables
           existing == conn.db.rows[name]
       IN  /\ forced => ~missing
           /\ IF missing
              THEN UNCHANGED <<conn, wrote>>
              ELSE \E rows \in IF forced
                               THEN InsertInterrupted(existing, InsertData(stmt), stmt)
                               ELSE InsertOrIgnore(existing, InsertData(stmt), stmt) :
                       /\ conn' = ImplicitBegin([conn EXCEPT !.db.rows[name] = rows])
                       /\ wrote' = (wrote \/ rows # existing)
           /\ IF missing \/ forced
              THEN /\ IF script = "PyScripts"
                      THEN /\ pc' = "rollback"
                           /\ UNCHANGED <<outcome, envVars, pageVars, dataVars>>
                      ELSE Leave("raised")
                   /\ UNCHANGED stmt
              ELSE /\ pc' = IF stmt = 4 THEN "commit" ELSE "insert"
                   /\ stmt' = stmt + 1
                   /\ UNCHANGED <<outcome, envVars, pageVars, dataVars>>
    /\ fault' = (fault \/ forced)
    /\ failed' = IF forced \/ names[stmt] \notin conn.db.tables THEN "insert"
                 ELSE failed
    /\ UNCHANGED <<call, ncalls, names, db_before, rolled_back>>

\* cursor.execute("COMMIT;") (PyScripts), conn.commit() (root)
FillCommit ==
    /\ pc = "commit"
    /\ conn' = IF script = "PyScripts" THEN ExecCommit(conn).conn ELSE ConnCommit(conn)
    /\ Leave("returned")
    /\ UNCHANGED <<call, fault, failed, wrote, ncalls, names, db_before, stmt, rolled_back>>

\* the except clauses: print the error, cursor.execute("ROLLBACK;"), return
FillRollback ==
    /\ pc = "rollback"
    /\ conn' = ExecRollback(conn).conn
    /\ rolled_back' = TRUE
    /\ Leave("returned")
    /\ UNCHANGED <<call, fault, failed, wrote, ncalls, names, db_before, stmt>>

-----------------------------------------------------------------------------
(* preprocess_tables_text (src/PyScripts/Text_preprocess.py) *)

\* the texts of the WHERE ... IN ('[deleted]', '[removed]', '') clauses
Sentinels == {"[deleted]", "[removed]", ""}

\* TRIM of the seven nested REGEX_REPLACE calls, on the texts of the model:
\* regex_replace returns '' for a NULL, the first pattern deletes a link, the
\* fifth deletes the square brackets.
CleanText(text) ==
    CASE text = None        -> ""
      [] text = "www.x"     -> ""
      [] text = "[deleted]" -> "deleted"
      [] text = "[removed]" -> "removed"
      [] OTHER              -> text

\* row r of the k-th table after SET col = v: the update of a row is skipped
\* when it would put a NULL into a NOT NULL ON CONFLICT IGNORE column
Updated(k, r, col, v) ==
    LET u == [r EXCEPT ![col] = v]
    IN  IF NotNullOk(k, u) THEN u ELSE r

\* UPDATE .. SET col = NULL WHERE col IN texts
SetNull(rows, k, col, texts) ==
    {IF r[col] \in texts THEN Updated(k, r, col, None) ELSE r : r \in rows}

\* UPDATE .. SET col = TRIM(REGEX_REPLACE(.. col ..))
CleanColumn(rows, k, col) == {Updated(k, r, col, CleanText(r[col])) : r \in rows}

\* the three updates of one text column
CleanedColumn(rows, k, col) ==
    SetNull(CleanColumn(SetNull(rows, k, col, Sentinels), k, col), k, col, {""})

\* the statements of the try block, table by table
PreprocessedRows(rows) ==
    [rows EXCEPT
        !["Posts"] =
            {r \in CleanedColumn(@, 1, "Text_content") :
                ~(r.Num_comments = 0 /\ r.Text_content = None)},
        !["Subreddits"] =
            CleanedColumn(CleanedColumn(@, 2, "Description"), 2, "Public_description"),
        !["Comments"] =
            {r \in CleanedColumn(@, 3, "Text_content") :
                ~(r.Num_replies = 0 /\ r.Text_content = None)},
        !["Replies"] =
            {r \in CleanedColumn(@, 4, "Text_content") : r.Text_content # None}]

\* assert check_column_exist(..): every table has its text columns
ColumnsExist(c) == TableSet \subseteq c.db.tables

\* create_regex_replace: registers REGEX_REPLACE on a connection without it,
\* and fails its assertion on one that has it (the result it compares is
\* read from the caller's cursor, which holds no row)
RegexReplaceAsserts(c) == "REGEX_REPLACE" \in c.functions

preprocess_tables_text ==
    /\ pc = "idle" /\ script = "PyScripts"
    /\ IF ~ColumnsExist(conn)
       THEN /\ outcome' = "raised" /\ failed' = "assert"
            /\ UNCHANGED conn
       ELSE IF RegexReplaceAsserts(conn)
       THEN /\ outcome' = "raised" /\ failed' = "assert"
            /\ UNCHANGED conn
       ELSE /\ outcome' = "returned" /\ failed' = "none"
            /\ conn' = ConnCommit([conn EXCEPT
                           !.functions = @ \cup {"REGEX_REPLACE"},
                           !.db.rows = PreprocessedRows(@)])
    /\ call' = "preprocess_tables_text"
    /\ names' = table_names
    /\ wrote' = FALSE /\ fault' = FALSE /\ rolled_back' = FALSE
    /\ ncalls' = ncalls + 1
    /\ db_before' = conn.db
    /\ stmt' = 1
    /\ UNCHANGED <<pc, envVars, pageVars, dataVars>>

CallPreprocessTablesText(budget) ==
    /\ ncalls < budget
    /\ preprocess_tables_text

-----------------------------------------------------------------------------
(* The store specification: prepare_database and fill_tables, called in    *)
(* any order on one connection, against small sources.                     *)

\* Listings of up to MaxPosts threads, each with one comment that has one reply
\* one thread whose comment, or whose reply, has a null body
NullBodySources ==
    {ListingWith(id :> None, << >>, <<2>>, << << <<"c", "r">> >> >>, 1) : id \in {11, 111}}

StoreSources ==
    {Listing(snap, [x \in 1..Len(snap) |-> << <<"c", "r">> >>], Len(snap)) :
        snap \in SeqsUpTo(1..MaxSnapshots, MaxPosts)}
        \cup NullBodySources

Init ==
    /\ script \in {"PyScripts", "root"}
    /\ conn = NewConnection
    /\ pc = "idle" /\ call = "none" /\ outcome = "none"
    /\ fault = FALSE /\ failed = "none" /\ wrote = FALSE
    /\ rolled_back = FALSE /\ ncalls = 0 /\ stmt = 1
    /\ names = table_names
    /\ db_before = EmptyDb
    /\ LocalsCleared

Next ==
    \/ CallPrepareDatabase(MaxCalls)
    \/ CallFillTables(MaxCalls, {MaxPosts}, {MaxLimit},
                      IF script = "root" THEN 1..MaxCpu ELSE {1}, StoreSources)
    \/ FillRequest
    \/ FillReceive
    \/ ParallelNext
    \/ GenAdvance
    \/ \E t \in 1..MaxPosts : WorkerReturn(t)
    \/ FillExtract
    \/ FillMerge
    \/ FillBegin
    \/ \E forced \in BOOLEAN : FillInsert(forced)
    \/ FillCommit
    \/ FillRollback

Spec == Init /\ [][Next]_vars

-----------------------------------------------------------------------------
(* The pagination specification: fill_tables up to the end of its search   *)
(* loop, for every posts_limit and every number of items the source holds. *)

PlainSource(n) == Listing(<< >>, << >>, n)

\* every listing of up to MaxAvailable items
PageSources == {PlainSource(n) : n \in 0..MaxAvailable}

NextPage ==
    \/ CallFillTables(1, 1..MaxPostsLimit, {0}, {1}, PageSources)
    \/ FillRequest
    \/ FillReceive

SpecPage == Init /\ [][NextPage]_vars

-----------------------------------------------------------------------------
(* The cap specification: the search loop of fill_tables for limits passed *)
(* just below and above the caps, against a source that never runs out.    *)

CapPostsLimits == {posts_limit_cap - CapMargin, posts_limit_cap + CapMargin}
CapLimits      == {comments_limit_cap - CapMargin, comments_limit_cap + CapMargin}
CapSources     == {PlainSource(posts_limit_cap + CapMargin)}

NextCap ==
    \/ CallFillTables(1, CapPostsLimits, CapLimits, {1}, CapSources)
    \/ FillRequest
    \/ FillReceive

SpecCap == Init /\ [][NextCap]_vars

-----------------------------------------------------------------------------
(* The batch specification: fill_tables of src/Database_start.py up to the *)
(* end of its generator of batches, for inputs of 0..MaxBatchInput items   *)
(* and batch sizes of 1..MaxBatchInput + 1.                                *)

BatchSources == {PlainSource(n) : n \in 0..MaxBatchInput}

NextBatch ==
    \/ CallFillTables(1, 1..MaxBatchInput, {0},
                      IF script = "root" THEN 1..(MaxBatchInput + 1) ELSE {1},
                      BatchSources)
    \/ FillRequest
    \/ FillReceive
    \/ ParallelNext
    \/ GenAdvance

SpecBatch == Init /\ [][NextBatch]_vars

-----------------------------------------------------------------------------
(* The preprocessing specification: prepare_database, fill_tables and      *)
(* preprocess_tables_text of src/PyScripts, called in any order on one     *)
(* connection, against threads with every kind of text.                    *)

\* the bodies of the source: a plain text, the sentinels, a bare link
PrepTexts == {"text", "[deleted]", "", "www.x"}

\* one thread with a comment and a reply of any text, and one thread without
\* comments whose own text is empty, removed, plain or a bare link
PrepSources ==
    {ListingWith(b, << >>, <<v>>, << << <<"c", "r">> >> >>, 1) :
        b \in [{11, 111} -> PrepTexts], v \in 1..MaxSnapshots}
        \cup {ListingWith(b, << >>, <<1>>, << << >> >>, 1) :
                 b \in {<< >>} \cup [{1} -> {"text", "[removed]", "www.x"}]}

InitPrep == Init /\ script = "PyScripts"

NextPrep ==
    \/ CallPrepareDatabase(MaxPrepCalls)
    \/ CallFillTables(MaxPrepCalls, {MaxPosts}, {MaxLimit}, {1}, PrepSources)
    \/ CallPreprocessTablesText(MaxPrepCalls)
    \/ FillRequest
    \/ FillReceive
    \/ FillExtract
    \/ FillBegin
    \/ \E forced \in BOOLEAN : FillInsert(forced)
    \/ FillCommit
    \/ FillRollback

SpecPrep == InitPrep /\ [][NextPrep]_vars

-----------------------------------------------------------------------------
(* The table-name specification: prepare_database of src/PyScripts called  *)
(* with any tuple of table names that keeps the order Posts, Subreddits,   *)
(* Comments, Replies, and fill_tables called with the names of the call    *)
(* before it.                                                              *)

\* the tuples whose k-th name is the default or the other name of position k
TableNameTuples ==
    {[k \in 1..4 |-> IF k \in S THEN other_table_names[k] ELSE table_names[k]] :
        S \in SUBSET (1..4)}

\* one thread with a comment and a reply
NameSources == {Listing(<<2>>, << << <<"c", "r">> >> >>, 1)}

InitNames == Init /\ script = "PyScripts"

NextNames ==
    \/ CallPrepareDatabaseNamed(MaxNameCalls, TableNameTuples)
    \/ CallFillTablesNamed(MaxNameCalls, {MaxPosts}, {MaxLimit}, {1}, NameSources)
    \/ FillRequest
    \/ FillReceive
    \/ FillExtract
    \/ FillBegin
    \/ FillInsert(FALSE)
    \/ FillCommit
    \/ FillRollback

SpecNames == InitNames /\ [][NextNames]_vars

-----------------------------------------------------------------------------
(* The extraction specification: one fill_tables call up to the end of the *)
(* merge, over listings whose threads have every comment forest of up to   *)
(* MaxNodes top-level nodes with up to MaxNodes reply nodes each.          *)

\* forests of at most one top-level node with at most one reply node
SmallShapes == {sh \in Shapes : Len(sh) <= 1 /\ \A c \in DOMAIN sh : Len(sh[c]) <= 2}

\* forests of two real comments followed by a placeholder
ScenarioShapes ==
    {<< <<"c">> \o r1, <<"c">> \o r2, <<"more">> >> :
        r1 \in ReplyShapes, r2 \in ReplyShapes}

\* listings of MaxPosts threads, each in any of MaxCommunities communities
CommunitySources ==
    {ListingIn(sub, [x \in 1..MaxPosts |-> IF x = 1 THEN 1 ELSE 2],
               [x \in 1..MaxPosts |-> << <<"c", "r">> >>], MaxPosts) :
        sub \in [1..MaxPosts -> 1..MaxCommunities]}

ExtractSources ==
    {Listing(<<1>>, <<sh>>, 1) : sh \in Shapes \cup ScenarioShapes}
        \cup {Listing([x \in 1..Len(shs) |-> 1], shs, Len(shs)) :
                 shs \in SeqsUpTo(SmallShapes, MaxPosts)}
        \cup CommunitySources

NextExtract ==
    \/ CallFillTables(1, {MaxPosts}, 0..MaxLimit,
                      IF script = "root" THEN 1..MaxCpu ELSE {1}, ExtractSources)
    \/ FillRequest
    \/ FillReceive
    \/ ParallelNext
    \/ GenAdvance
    \/ \E t \in 1..MaxPosts : WorkerReturn(t)
    \/ FillExtract
    \/ FillMerge

SpecExtract == Init /\ [][NextExtract]_vars

-----------------------------------------------------------------------------
(* The merge specification: fill_tables of src/Database_start.py at the    *)
(* start of its merge loop, the list of per-batch results being in any     *)
(* order.                                                                  *)

MergeSources ==
    {Listing(snap, [x \in 1..Len(snap) |-> << <<"c", "r">> >>], Len(snap)) :
        snap \in SeqsUpTo(1..MaxSnapshots, MaxMergePosts)}

\* the list res in every order
Reorderings(res) ==
    {[x \in 1..Len(res) |-> res[p[x]]] : p \in Permutations(1..Len(res))}

InitMerge ==
    /\ script = "root"
    /\ conn = NewConnection
    /\ call = "fill_tables" /\ outcome = "none"
    /\ fault = FALSE /\ failed = "none" /\ wrote = FALSE
    /\ rolled_back = FALSE /\ ncalls = 1 /\ stmt = 1
    /\ names = table_names
    /\ db_before = EmptyDb
    /\ source \in MergeSources
    /\ posts_limit = MaxMergePosts
    /\ comments_limit = MaxLimit /\ replies_limit = MaxLimit
    /\ cpu_count \in 1..(MaxMergePosts + 1)
    /\ i = 0 /\ last_post_id = NoCursor /\ after_param = NoCursor
    /\ result_collection = Search(source, posts_limit, NoCursor)
    /\ requests = << [limit |-> posts_limit, after |-> NoCursor, got |-> source.n,
                      last |-> source.n] >>
    /\ in_flight = 0
    /\ results \in Reorderings(ParallelResults(result_collection, comments_limit,
                                               replies_limit))
    /\ merged = 0
    /\ gen = [state |-> "exhausted", batch |-> << >>,
              pulled |-> Len(result_collection), yields |-> Len(results)]
    /\ tasks = LET batches == batch_generator(result_collection, BatchSize)
                   res == ParallelResults(result_collection, comments_limit,
                                          replies_limit)
               IN  [b \in 1..Len(batches) |->
                       [batch |-> batches[b], state |-> "done", result |-> res[b]]]
    /\ post_data = {} /\ subreddit_data = {} /\ comment_data = {} /\ reply_data = {}
    /\ pc = IF results = << >> THEN "insert" ELSE "merge"

NextMerge == FillMerge

SpecMerge == InitMerge /\ [][NextMerge]_vars

-----------------------------------------------------------------------------
(* Properties of the store specification (Spec) *)

\* C1: write atomicity of fill_tables in src/PyScripts/Database_start.py.
\* When one of the four bulk inserts of a call fails, then once the call has
\* returned the connection shows, and the database file holds, exactly the
\* content the store had before the call, so no row of that call is visible;
\* and COMMIT is reached only after all four inserts succeeded.
C1_WriteAtomicity ==
    script = "PyScripts" /\ call = "fill_tables" =>
        /\ (pc = "idle" /\ failed = "insert") =>
               /\ outcome = "returned" /\ rolled_back
               /\ conn.db = db_before
               /\ conn.disk = db_before
               /\ ~conn.in_transaction
        /\ pc = "commit" => (stmt = 5 /\ failed = "none")

\* the Replies insert failed after the three inserts before it had added rows
C1_Witness ==
    /\ script = "PyScripts" /\ call = "fill_tables" /\ pc = "idle"
    /\ outcome = "returned" /\ rolled_back
    /\ fault /\ wrote /\ stmt = 4
    /\ db_before.tables = TableSet

NoDuplicateIds(db) ==
    \A t \in TableSet : \A r1, r2 \in db.rows[t] : r1.Id = r2.Id => r1 = r2

\* C2: at every moment each table holds at most one row per primary-key id,
\* in the connection's view and on disk, and no step of a fill_tables call
\* changes or removes a row that was committed before: every committed row is
\* still there, as it was, after the step.
C2_OneRowPerIdAndAdditive ==
    [][/\ NoDuplicateIds(conn'.db)
       /\ NoDuplicateIds(conn'.disk)
       /\ pc # "idle" =>
              \A t \in TableSet : conn.disk.rows[t] \subseteq conn'.disk.rows[t]]_vars

\* a call is about to commit whose collections held two tuples with one id and
\* a post tuple whose id was already stored with other values
C2_Witness ==
    /\ pc = "commit"
    /\ \E a, b \in subreddit_data : a.Id = b.Id /\ a # b
    /\ \E t \in post_data : \E e \in conn.disk.rows["Posts"] : e.Id = t.Id /\ e # t
    /\ \E t \in post_data : \A e \in conn.disk.rows["Posts"] : e.Id # t.Id

IndexSet == {index_statements[x].name : x \in DOMAIN index_statements}

SchemaAllOrNone(db) ==
    \/ db.tables = {} /\ db.indexes = {}
    \/ db.tables = TableSet /\ db.indexes = IndexSet

\* C11: in src/PyScripts/Database_start.py the four tables and four indexes
\* either all exist or none does, on the connection and on disk; and when a
\* CREATE TABLE or CREATE INDEX of prepare_database fails, the call returns
\* after a rollback and no table or index of that call exists.
C11_SchemaCreationAtomic ==
    script = "PyScripts" =>
        /\ SchemaAllOrNone(conn.db)
        /\ SchemaAllOrNone(conn.disk)
        /\ (call = "prepare_database" /\ failed = "schema" /\ db_before.tables = {}) =>
               /\ outcome = "returned" /\ rolled_back
               /\ conn.db = db_before /\ conn.disk = db_before
               /\ ~conn.in_transaction

\* the last CREATE INDEX fails, after four tables and three indexes were made
C11_Witness ==
    /\ script = "PyScripts" /\ call = "prepare_database"
    /\ fault /\ failed = "schema" /\ stmt = 8
    /\ outcome = "returned" /\ rolled_back
    /\ conn.db.tables = {} /\ conn.db.indexes = {}

\* C12: when an insert of fill_tables in src/PyScripts/Database_start.py has
\* failed and the transaction was rolled back, the call does not end the way
\* a successful call ends (a plain return of None): it ends with an error.
C12_FailedWriteReported ==
    (script = "PyScripts" /\ call = "fill_tables" /\ pc = "idle"
        /\ failed = "insert" /\ rolled_back) => outcome # "returned"

\* the community tuple observed with the x-th post of the paginated sequence
Observed(x) == SubredditTuple(Thread(source, result_collection[x]))

\* C13: once the four inserts of a run have succeeded, the Subreddits row of
\* every community id the store did not hold before the run is the snapshot
\* observed with the first post of that community in the paginated sequence.
C13_FirstSeenSnapshotWins ==
    (call = "fill_tables" /\ pc = "commit") =>
        \A x \in DOMAIN result_collection :
            (/\ \A y \in 1..(x - 1) : Observed(y).Id # Observed(x).Id
             /\ \A e \in db_before.rows["Subreddits"] : e.Id # Observed(x).Id)
                => Observed(x) \in conn.db.rows["Subreddits"]

SnapOf(pid) == IF pid \in DOMAIN source.snap THEN source.snap[pid] ELSE 2

\* C14: after extraction and merge the collection of community tuples holds
\* one tuple per distinct observation (equal observations are one tuple, and
\* observations of one id that differ in a field are all kept), and the post
\* collection one tuple per post; an id has a single row only once the
\* insert into its table has run.
C14_FullTupleDedup ==
    (call = "fill_tables" /\ pc \in {"begin", "insert", "commit", "rollback"}) =>
        /\ \A x \in DOMAIN result_collection : Observed(x) \in subreddit_data
        /\ Cardinality(subreddit_data) =
               Cardinality({SnapOf(result_collection[x]) : x \in DOMAIN result_collection})
        /\ Cardinality(post_data) = Cardinality(Range(result_collection))
        /\ (pc \in {"insert", "commit"} /\ stmt >= 3) =>
               \A t \in subreddit_data :
                   Cardinality({e \in conn.db.rows["Subreddits"] : e.Id = t.Id}) = 1

\* one community id observed with subscriber counts 100 and 105: two tuples
\* in the merged collection, one row after the inserts
C14_Witness ==
    /\ call = "fill_tables" /\ pc = "commit"
    /\ {t.Subscribers : t \in {u \in subreddit_data : u.Id = 1}} = {100, 105}
    /\ Cardinality(subreddit_data) = 2
    /\ Cardinality(conn.db.rows["Subreddits"]) = 1

WorkersRunning == \E t \in DOMAIN tasks : tasks[t].state = "running"

\* what holds of every state of fill_tables in src/Database_start.py
JoinBarrier ==
    script = "root" =>
        /\ (pc = "merge" \/ merged > 0 \/ results # << >>) =>
               /\ gen.state = "exhausted"
               /\ ~WorkersRunning
               /\ results = [t \in DOMAIN tasks |-> tasks[t].result]
        /\ pc \in {"insert", "commit"} => (~WorkersRunning /\ merged = Len(results))
        /\ WorkersRunning => pc = "extract"

\* what holds of every step that changes the connection
SingleWriter ==
    (script = "root" /\ conn' # conn) =>
        /\ ~WorkersRunning
        /\ \/ pc = "idle" /\ call' = "prepare_database"
           \/ pc \in {"insert", "commit"} /\ call = "fill_tables"

\* C19: in src/Database_start.py the merge starts only when Parallel has
\* returned, every worker being back with its result; the first insert is
\* issued only when all results are merged; the connection is changed only
\* by prepare_database between calls or by the inserts and the commit of
\* fill_tables, one at a time, and never while a worker runs.
C19_JoinBarrierSingleWriter == [] JoinBarrier /\ [][SingleWriter]_vars

\* the first insert is about to be issued, two workers back and merged
C19_Witness ==
    /\ script = "root" /\ pc = "insert" /\ stmt = 1
    /\ Len(tasks) = 2 /\ merged = 2
    /\ \A t \in DOMAIN tasks : tasks[t].state = "done"
    /\ Cardinality(post_data) = 2

\* the row of table t with the given id, when the run added it
AddedRows(t, id) ==
    {e \in conn.db.rows[t] : e.Id = id /\ \A b \in db_before.rows[t] : b.Id # id}

\* the real comments / replies of a thread that the run extracts
ExtractedComments(post) ==
    {c \in DOMAIN post.comments :
        /\ c <= comments_limit
        /\ \A k \in 1..c : ~IsMoreComments(post.comments[k])}

ExtractedReplies(comment) ==
    {r \in DOMAIN comment.replies :
        /\ r <= replies_limit
        /\ \A k \in 1..r : ~IsMoreComments(comment.replies[k])}

\* the texts of communities, comments and replies are stored as observed
OtherTextsRaw ==
    \A x \in DOMAIN result_collection :
        LET post == Thread(source, result_collection[x])
        IN  /\ \A e \in AddedRows("Subreddits", post.subreddit.id) :
                   /\ e.Description = post.subreddit.description
                   /\ e.Public_description = post.subreddit.public_description
            /\ \A c \in ExtractedComments(post) :
                   /\ \A e \in AddedRows("Comments", post.comments[c].id) :
                          e.Text_content = post.comments[c].body
                   /\ \A r \in ExtractedReplies(post.comments[c]) :
                          \A e \in AddedRows("Replies", post.comments[c].replies[r].id) :
                              e.Text_content = post.comments[c].replies[r].body

\* C20 as stated: when the four inserts of a run have succeeded, every text
\* of a row the run added is the text the source showed for that item,
\* character for character; none is replaced, dropped or stored as NULL.
C20_RawTextStored ==
    (call = "fill_tables" /\ pc = "commit") =>
        /\ OtherTextsRaw
        /\ \A x \in DOMAIN result_collection :
               LET post == Thread(source, result_collection[x])
               IN  \A e \in AddedRows("Posts", post.id) :
                       e.Text_content = post.selftext

\* C20 amended: the same, except that a post whose text is the empty string
\* is stored with a NULL Text_content.
C20_RawTextStoredButEmpty ==
    (call = "fill_tables" /\ pc = "commit") =>
        /\ OtherTextsRaw
        /\ \A x \in DOMAIN result_collection :
               LET post == Thread(source, result_collection[x])
               IN  \A e \in AddedRows("Posts", post.id) :
                       e.Text_content =
                           IF post.selftext = "" THEN None ELSE post.selftext

\* a run that added a post with the sentinel text, a post with an empty text
\* and a comment with the sentinel body
C20_Witness ==
    /\ call = "fill_tables" /\ pc = "commit"
    /\ \E e \in AddedRows("Posts", 1) : e.Text_content = "[removed]"
    /\ \E e \in AddedRows("Posts", 2) : e.Text_content = None
    /\ \E e \in AddedRows("Comments", 21) : e.Text_content = "[deleted]"
    /\ AddedRows("Subreddits", 1) # {}
    /\ AddedRows("Replies", 211) # {}

\* C22: a prepare_database call that finds at least one of the four named
\* tables in the store, not necessarily all of them, returns without raising
\* and leaves every named table of the store without rows.
C22_WipeOnPartialExistence ==
    (call = "prepare_database" /\ db_before.tables \cap TableSet # {}) =>
        /\ outcome = "returned"
        /\ \A t \in TableSet \cap conn.db.tables : conn.db.rows[t] = {}

StoreRefs(db) ==
    /\ \A c \in db.rows["Comments"] :
           \E p \in db.rows["Posts"] : p.Id = c.Submission_id
    /\ \A y \in db.rows["Replies"] :
           /\ \E p \in db.rows["Posts"] : p.Id = y.Submission_id
           /\ \E c \in db.rows["Comments"] : c.Id = y.Parent_id

\* C23: once a fill_tables call into a store that held the four tables has
\* committed, every Replies row's Parent_id is the Id of a Comments row and
\* its Submission_id the Id of a Posts row, and every Comments row's
\* Submission_id is the Id of a Posts row, also when an insert skipped a
\* parent row (its id was stored already, or its Text_content was null).
C23_StoreReferentialIntegrity ==
    (/\ call = "fill_tables" /\ pc = "idle"
     /\ outcome = "returned" /\ failed = "none"
     /\ TableSet \subseteq db_before.tables) => StoreRefs(conn.disk)

\* C24: prepare_database of src/PyScripts/Database_start.py, on the create
\* path and on the wipe path, returns with its changes committed and with no
\* transaction open on the connection, so that the BEGIN TRANSACTION of a
\* fill_tables call does not fail.
C24_NoTransactionLeftOpen ==
    script = "PyScripts" =>
        /\ (call = "prepare_database" /\ outcome = "returned") =>
               /\ ~conn.in_transaction
               /\ conn.disk = conn.db
        /\ call = "fill_tables" => failed # "begin"

-----------------------------------------------------------------------------
(* Properties of the pagination specification (SpecPage) *)

Ceil(a, b) == (a + b - 1) \div b

RECURSIVE SumOfLimits(_)
SumOfLimits(reqs) ==
    IF reqs = << >> THEN 0 ELSE Head(reqs).limit + SumOfLimits(Tail(reqs))

RECURSIVE ItemsReceived(_)
ItemsReceived(reqs) ==
    IF reqs = << >> THEN 0 ELSE Head(reqs).got + ItemsReceived(Tail(reqs))

\* C3: when the source holds at least posts_limit items, every page asked for
\* comes back full, and once the search loop is over exactly
\* ceil(posts_limit / 100) requests were issued, each for 100 items except
\* that the last is for posts_limit mod 100 when that is not zero, the sizes
\* adding up to posts_limit.
C3_RequestCountAndSizes ==
    (call = "fill_tables" /\ pc # "idle" /\ source.n >= posts_limit) =>
        /\ \A r \in 1..Len(requests) :
               requests[r].got \in {-1, requests[r].limit}
        /\ pc = "extract" =>
               /\ Len(requests) = Ceil(posts_limit, native_limit)
               /\ \A r \in 1..(Len(requests) - 1) : requests[r].limit = native_limit
               /\ requests[Len(requests)].limit =
                      IF posts_limit % native_limit # 0
                      THEN posts_limit % native_limit ELSE native_limit
               /\ SumOfLimits(requests) = posts_limit

\* posts_limit = 250: three requests, of 100, 100 and 50 items
C3_Witness ==
    /\ pc = "extract" /\ posts_limit = 250 /\ source.n >= 250
    /\ Len(requests) = 3
    /\ requests[1].limit = 100 /\ requests[2].limit = 100 /\ requests[3].limit = 50

\* C4: a page shorter than asked for (an empty one included) is the last page
\* requested, fill_tables raises nothing, and the paginated sequence is the
\* first min(posts_limit, items available) items of the source, in order.
C4_ExhaustionEndsPagination ==
    call = "fill_tables" =>
        /\ \A r \in 1..Len(requests) :
               (requests[r].got >= 0 /\ requests[r].got < requests[r].limit)
                   => r = Len(requests)
        /\ outcome # "raised"
        /\ pc = "extract" =>
               result_collection = [x \in 1..Min(posts_limit, source.n) |-> x]

\* C5: the first request carries no cursor, every later request carries the
\* id of the last item of the page received just before it, a request is
\* issued only when every earlier page has arrived, and at most one request
\* is in flight.
C5_CursorChaining ==
    call = "fill_tables" =>
        /\ in_flight \in {0, 1}
        /\ in_flight = Cardinality({r \in 1..Len(requests) : requests[r].got = -1})
        /\ \A r \in 1..Len(requests) :
               /\ r = 1 => requests[r].after = NoCursor
               /\ r > 1 => /\ requests[r - 1].got > 0
                           /\ requests[r].after = requests[r - 1].last
                           /\ requests[r].after =
                                  result_collection[ItemsReceived(SubSeq(requests, 1, r - 1))]
               /\ r < Len(requests) => requests[r].got >= 0

\* the third request of a call is in flight, with the second page's last id
C5_Witness ==
    /\ pc = "wait" /\ Len(requests) = 3 /\ in_flight = 1
    /\ requests[3].after = requests[2].last
    /\ requests[2].last # requests[1].last

-----------------------------------------------------------------------------
(* Properties of the cap specification (SpecCap) *)

\* C15: in src/PyScripts/Database_start.py, whatever posts_limit the caller
\* passes, the limits of all search requests of one call add up to at most
\* 10,000, and the comment and reply limits of the call are at most 100.
C15_RequestCap ==
    (script = "PyScripts" /\ call = "fill_tables") =>
        /\ posts_limit <= posts_limit_cap
        /\ SumOfLimits(requests) <= posts_limit_cap
        /\ comments_limit <= comments_limit_cap
        /\ replies_limit <= replies_limit_cap

\* every limit was passed above its cap: 100 requests of 100 items
C15_Witness ==
    /\ script = "PyScripts" /\ pc = "extract"
    /\ posts_limit = posts_limit_cap
    /\ comments_limit = comments_limit_cap /\ replies_limit = replies_limit_cap
    /\ Len(requests) = posts_limit_cap \div native_limit
    /\ SumOfLimits(requests) = posts_limit_cap
    /\ Len(result_collection) = posts_limit_cap

-----------------------------------------------------------------------------
(* Properties of the batch specification (SpecBatch) *)

\* the batches yielded so far, in yield order
Yielded == [t \in DOMAIN tasks |-> tasks[t].batch]

RECURSIVE Concat(_)
Concat(seqs) == IF seqs = << >> THEN << >> ELSE Head(seqs) \o Concat(Tail(seqs))

\* C16: the batches batch_generator yields, put end to end in yield order,
\* are a prefix of its input and, once it is exhausted, the whole input;
\* every batch has between 1 and batch_size items and every batch but the
\* last one yielded at the end exactly batch_size; an empty input yields no
\* batch.
C16_BatchesPartitionInput ==
    (script = "root" /\ pc = "extract") =>
        /\ Len(Concat(Yielded)) <= Len(result_collection)
        /\ Concat(Yielded) = SubSeq(result_collection, 1, Len(Concat(Yielded)))
        /\ \A t \in DOMAIN tasks :
               /\ Len(Yielded[t]) >= 1
               /\ Len(Yielded[t]) <= BatchSize
               /\ (t < Len(tasks) \/ gen.state \notin {"yielded_last", "exhausted"})
                      => Len(Yielded[t]) = BatchSize
        /\ gen.state = "exhausted" =>
               /\ Concat(Yielded) = result_collection
               /\ Yielded = batch_generator(result_collection, BatchSize)
               /\ result_collection = << >> => tasks = << >>

\* five items in batches of two: two full batches and a last one of one item
C16_Witness ==
    /\ script = "root" /\ pc = "extract" /\ gen.state = "exhausted"
    /\ BatchSize = 2 /\ Len(result_collection) = 5
    /\ Yielded = << <<1, 2>>, <<3, 4>>, <<5>> >>

\* C17: when batch_generator yields its k-th full batch it has pulled exactly
\* k * batch_size items from its input; while it runs it has pulled the
\* items of the batches yielded and of the batch it is filling, no other;
\* so an input longer than a batch is never read whole before the first yield.
C17_IncrementalConsumption ==
    (script = "root" /\ pc = "extract") =>
        /\ gen.state = "yielded" => gen.pulled = gen.yields * BatchSize
        /\ gen.state = "running" =>
               /\ gen.pulled = gen.yields * BatchSize + Len(gen.batch)
               /\ Len(gen.batch) < BatchSize
        /\ gen.pulled = Len(Concat(Yielded))
               + (IF gen.state = "running" THEN Len(gen.batch) ELSE 0)
        /\ (gen.yields = 0 /\ Len(result_collection) > BatchSize) =>
               gen.pulled < Len(result_collection)

\* the second full batch is yielded with four of six items pulled
C17_Witness ==
    /\ script = "root" /\ pc = "extract" /\ gen.state = "yielded"
    /\ BatchSize = 2 /\ gen.yields = 2 /\ gen.pulled = 4
    /\ Len(result_collection) = 6

-----------------------------------------------------------------------------
(* Properties of the extraction specification (SpecExtract) *)

Extracted == pc \in {"begin", "insert"}

RefComplete(r) ==
    /\ \A c \in r.comment_data : \E p \in r.post_data : p.Id = c.Submission_id
    /\ \A y \in r.reply_data :
           /\ \E p \in r.post_data : p.Id = y.Submission_id
           /\ \E c \in r.comment_data :
                  /\ c.Id = y.Parent_id
                  /\ c.Submission_id = y.Submission_id

\* C6: in the four sets every process_post_batch call returns, and in their
\* merge over all batches of the call, every comment tuple's Submission_id is
\* the Id of a post tuple, every reply tuple's Submission_id is the Id of a
\* post tuple, and every reply tuple's Parent_id is the Id of a comment tuple
\* (the comment the reply was iterated under, never the reply's prefixed
\* parent_id field).
C6_ReferentialCompleteness ==
    /\ \A b \in DOMAIN results : RefComplete(results[b])
    /\ Extracted => RefComplete(Collections)

C6_Witness ==
    /\ Extracted
    /\ Cardinality(post_data) = 2
    /\ Cardinality(comment_data) = 2
    /\ \E y \in reply_data, z \in reply_data : y.Submission_id # z.Submission_id

NumRepliesConsistent(r, rl) ==
    \A c \in r.comment_data :
        /\ c.Num_replies = Cardinality({y \in r.reply_data : y.Parent_id = c.Id})
        /\ c.Num_replies <= rl

\* C7: the Num_replies of every comment tuple extracted is the number of
\* reply tuples extracted with that comment's id as Parent_id, and it is at
\* most replies_limit.
C7_NumRepliesConsistency ==
    /\ \A b \in DOMAIN results : NumRepliesConsistent(results[b], replies_limit)
    /\ Extracted => NumRepliesConsistent(Collections, replies_limit)

\* a comment with two real replies, of which replies_limit lets one through,
\* and a comment whose second reply node is a placeholder
C7_Witness ==
    /\ Extracted
    /\ replies_limit = 1
    /\ source.shape = << << <<"c", "r", "r">>, <<"c", "r", "more">> >> >>
    /\ Cardinality(comment_data) = 2
    /\ \A c \in comment_data : c.Num_replies = 1

ShapeOf(pid) == IF pid \in DOMAIN source.shape THEN source.shape[pid] ELSE << >>

\* positions of the real comments before the first placeholder among the
\* first cl top-level nodes of a forest
ExpectedComments(sh, cl) ==
    {c \in 1..Min(cl, Len(sh)) : \A k \in 1..c : sh[k][1] # "more"}

\* positions of the real replies before the first placeholder among the
\* first rl reply nodes of a comment node
ExpectedReplies(node, rl) ==
    {r \in 1..Min(rl, Len(node) - 1) : \A k \in 1..r : node[k + 1] # "more"}

ExpectedCommentIds ==
    UNION {{10 * pid + c : c \in ExpectedComments(ShapeOf(pid), comments_limit)} :
              pid \in Range(result_collection)}

ExpectedReplyIds ==
    UNION {UNION {{100 * pid + 10 * c + r :
                      r \in ExpectedReplies(ShapeOf(pid)[c], replies_limit)} :
                  c \in ExpectedComments(ShapeOf(pid), comments_limit)} :
           pid \in Range(result_collection)}

\* C8: the comment tuples extracted for a post are exactly those of the real
\* comments before the first placeholder among its first comments_limit
\* top-level nodes, the reply tuples of each such comment exactly those of the
\* real replies before the first placeholder among its first replies_limit
\* reply nodes, one tuple each; nothing is emitted for a placeholder and the
\* extraction raises nothing.
C8_PlaceholderEarlyStop ==
    Extracted =>
        /\ {c.Id : c \in comment_data} = ExpectedCommentIds
        /\ {y.Id : y \in reply_data} = ExpectedReplyIds
        /\ Cardinality(comment_data) = Cardinality(ExpectedCommentIds)
        /\ Cardinality(reply_data) = Cardinality(ExpectedReplyIds)
        /\ \A t \in comment_data \cup reply_data : t.Id # More.id
        /\ outcome # "raised"

\* a placeholder among the replies of the first comment: its reply loop ends
\* there, its own tuple is emitted and the next comment is processed
C8_Witness ==
    /\ Extracted
    /\ comments_limit = 2 /\ replies_limit = 2
    /\ source.shape = << << <<"c", "more", "r">>, <<"c", "r">> >> >>
    /\ {c.Id : c \in comment_data} = {11, 12}
    /\ {y.Id : y \in reply_data} = {121}

\* the run is over one thread whose top-level nodes are two real comments
\* and then a placeholder
Scenario == Extracted /\ source.n = 1 /\ ShapeOf(1) \in ScenarioShapes

BatchOf(b) == IF script = "PyScripts" THEN result_collection ELSE tasks[b].batch

\* the source items a comment tuple and a reply tuple were made from
CommentNode(t) == Thread(source, t.Submission_id).comments[t.Id % 10]
ReplyNode(t) ==
    Thread(source, t.Submission_id).comments[t.Parent_id % 10].replies[t.Id % 10]

DistinctIds(batch) ==
    \A x \in DOMAIN batch, y \in DOMAIN batch : batch[x] = batch[y] => x = y

OnePostPerThread(batch, r) ==
    /\ Cardinality(r.post_data) = Len(batch)
    /\ \A x \in DOMAIN batch :
           \E p \in r.post_data :
               /\ p.Id = batch[x]
               /\ p.Subreddit_id = Thread(source, batch[x]).subreddit.id
    /\ \A p \in r.post_data : \E s \in r.subreddit_data : s.Id = p.Subreddit_id
    /\ \A s \in r.subreddit_data :
           \E x \in DOMAIN batch : Thread(source, batch[x]).subreddit.id = s.Id

AuthorNullIffNoAccount(r) ==
    /\ \A p \in r.post_data :
           (p.Author = None) <=> (Thread(source, p.Id).author = NoAccount)
    /\ \A c \in r.comment_data :
           (c.Author = None) <=> (CommentNode(c).author = NoAccount)
    /\ \A y \in r.reply_data :
           (y.Author = None) <=> (ReplyNode(y).author = NoAccount)

\* C21: for every batch of threads with pairwise distinct ids, the sets
\* process_post_batch returns hold exactly one post tuple per thread, each
\* with the id of its thread's community as Subreddit_id, and a community
\* tuple for that id (and for no community outside the batch); the Author of
\* a post, comment or reply tuple is null exactly when the item it was made
\* from has no author account.
C21_PostCommunityEmission ==
    \A b \in DOMAIN results :
        /\ DistinctIds(BatchOf(b)) => OnePostPerThread(BatchOf(b), results[b])
        /\ AuthorNullIffNoAccount(results[b])

\* a batch of two threads in two communities, one post by a deleted account
\* and one by a live one, with comments and replies of both kinds
C21_Witness ==
    /\ results # << >>
    /\ Len(BatchOf(1)) = 2
    /\ {p.Subreddit_id : p \in results[1].post_data} = {1, 2}
    /\ Cardinality(results[1].subreddit_data) = 2
    /\ \E p \in results[1].post_data, q \in results[1].post_data :
           p.Author = None /\ q.Author # None
    /\ \E c \in results[1].comment_data, d \in results[1].comment_data :
           c.Author = None /\ d.Author # None
    /\ \E y \in results[1].reply_data : y.Author # None

-----------------------------------------------------------------------------
(* Properties of the preprocessing specification (SpecPrep) *)

\* C25: once preprocess_tables_text has committed on a store created by
\* prepare_database and filled by fill_tables, no row of Posts, Comments or
\* Replies has a Text_content of '[deleted]', '[removed]' or '' (the value was
\* set to NULL or the row deleted), and no Replies row without text is left.
C25_SentinelTextsNulled ==
    (call = "preprocess_tables_text" /\ outcome = "returned") =>
        /\ \A t \in {"Posts", "Comments", "Replies"} :
               \A r \in conn.disk.rows[t] : r.Text_content \notin Sentinels
        /\ \A r \in conn.disk.rows["Replies"] : r.Text_content # None

-----------------------------------------------------------------------------
(* Properties of the table-name specification (SpecNames) *)

\* C26: prepare_database of src/PyScripts called with four distinct table
\* names, the defaults or others, on a store without tables returns and
\* leaves exactly the four tables of these names; and a fill_tables call with
\* names whose tables the store holds fails at no insert and, when it is
\* about to commit, has put each tuple it collected into the table of its
\* position.
C26_TableNamesHonoured ==
    /\ (call = "prepare_database" /\ db_before.tables = {}) =>
           /\ outcome = "returned"
           /\ conn.db.tables = Range(names)
    /\ (call = "fill_tables" /\ Range(names) \subseteq db_before.tables) =>
           failed # "insert"
    /\ (call = "fill_tables" /\ pc = "commit") =>
           \A k \in 1..4 : \A t \in InsertData(k) :
               \E e \in conn.db.rows[names[k]] : e.Id = t.Id

-----------------------------------------------------------------------------
(* Properties of the merge specification (SpecMerge) *)

\* C9: whatever the order in which the per-batch results are folded into
\* post_data, subreddit_data, comment_data and reply_data, the four merged
\* collections are the ones the fold of the results in batch order gives,
\* also when two batches carry tuples of one id with different values.
C9_MergeOrderIndependent ==
    (pc = "insert" /\ merged = Len(results)) =>
        Collections = MergeLoop(ParallelResults(result_collection, comments_limit,
                                                replies_limit), EmptyResult)

C9_Witness ==
    /\ pc = "insert"
    /\ merged = Len(results)
    /\ results # ParallelResults(result_collection, comments_limit, replies_limit)
    /\ \E a \in DOMAIN results, b \in DOMAIN results :
           \E x \in results[a].subreddit_data, y \in results[b].subreddit_data :
               a < b /\ x.Id = y.Id /\ x # y

====
